---- MODULE Spec2Model ----
(***************************************************************************)
(* odysee-channel-dl: the channel synchronisation of downloadChannel.js    *)
(* (processChannel) with the listing client of lib/odysee.js and the       *)
(* re-invocation loop of run.sh.  One step of the model is the code that   *)
(* runs between two suspension points (await) of processChannel.           *)
(***************************************************************************)
EXTENDS Integers, Sequences, FiniteSets, TLC

\* ------------------------------------------------------------------ bounds
MaxRuns == 2        \* invocations of downloadChannel.js by run.sh
MaxDate == 2        \* largest oldestDate tried; timestamps are 0..MaxDate
PageSize == 2       \* configured page size

\* the claims that may appear on the channel: name (as characters) and timestamp;
\* a timestamp of 0 is a missing one
Catalogue ==
    { [name |-> <<"a", ":">>, timestamp |-> 2],
      [name |-> <<"a", "/">>, timestamp |-> 1],
      [name |-> <<"b">>, timestamp |-> 1],
      [name |-> <<"b">>, timestamp |-> 0] }

NoDate == 0         \* oldestDate not configured (null)

ChannelName == "@chan"

Untitled == <<"u", "n", "t", "i", "t", "l", "e", "d">>

\* ----------------------------------------------------------- pure helpers
UnsafeChars == { "\\", "/", ":", "*", "?", "\"", "<", ">", "|" }

filenameSafe(name) ==
    [i \in DOMAIN name |-> IF name[i] \in UnsafeChars THEN "_" ELSE name[i]]

Ext(audioOnly) == IF audioOnly THEN "m4a" ELSE "mp4"

\* basename of the lookahead: filenameSafe(next.title) + extension
ProspectiveBasename(title, audioOnly) ==
    [name |-> filenameSafe(title), ext |-> Ext(audioOnly)]

\* outPath of an item, as its basename inside outputDir
OutPath(title, audioOnly) ==
    [name |-> filenameSafe(IF title = <<>> THEN Untitled ELSE title),
     ext  |-> Ext(audioOnly)]

\* url of a listing entry: https://odysee.com/<channel>/<name>
ItemUrl(title) == <<ChannelName, title>>

ListingItem(claim) ==
    [title |-> claim.name, date |-> claim.timestamp, url |-> ItemUrl(claim.name)]

Min(a, b) == IF a < b THEN a ELSE b

\* the page the listing API answers with: claims (p-1)*n+1 .. p*n
PageOf(chan, p, n) ==
    LET lo == (p - 1) * n + 1
        hi == Min(p * n, Len(chan))
    IN  [i \in 1..(IF hi >= lo THEN hi - lo + 1 ELSE 0) |-> ListingItem(chan[lo + i - 1])]

\* dates: null, a Date object (in memory) or its ISO string (after JSON)
NullDate == [k |-> "null", t |-> 0]

Created(date) == IF date # 0 THEN [k |-> "Date", t |-> date] ELSE NullDate

\* the comparison written as "not newer than"
CutoffReachedInclusive(oldest, created) ==
    oldest # NoDate /\ created.k # "null" /\ created.t <= oldest

CutoffReached(oldest, created) ==
    oldest # NoDate /\ created.k # "null" /\ created.t < oldest

NewRecord(item, outPath) ==
    [title |-> item.title, file |-> outPath, date |-> Created(item.date),
     sourceUrl |-> item.url]

\* JSON.stringify of a record: a Date becomes its ISO string
ToJson(rec) ==
    [rec EXCEPT !.date = IF @.k = "Date" THEN [k |-> "Iso", t |-> @.t] ELSE @]

Persist(recs) == [i \in DOMAIN recs |-> ToJson(recs[i])]

Range(s) == { s[i] : i \in DOMAIN s }

\* (b.date||0) - (a.date||0): a string operand gives NaN, which sort reads as 0
SortKey(d) == IF d.k = "Date" THEN d.t ELSE 0

Compare(a, b) ==
    IF a.date.k = "Iso" \/ b.date.k = "Iso" THEN 0
    ELSE SortKey(b.date) - SortKey(a.date)

\* Array.prototype.sort is stable: x goes behind every element that does not
\* sort after it
RECURSIVE InsertSorted(_, _)
InsertSorted(s, x) ==
    IF s = <<>> THEN <<x>>
    ELSE IF Compare(s[Len(s)], x) > 0
         THEN Append(InsertSorted(SubSeq(s, 1, Len(s) - 1), x), s[Len(s)])
         ELSE Append(s, x)

RECURSIVE SortItems(_)
SortItems(s) ==
    IF s = <<>> THEN <<>>
    ELSE InsertSorted(SortItems(SubSeq(s, 1, Len(s) - 1)), s[Len(s)])

\* isoDate: a missing date is printed as the time of the build
isoDate(d, now) == IF d.k = "null" THEN [k |-> "now", t |-> now] ELSE [k |-> "at", t |-> d.t]

Mime(file) ==
    IF file.ext = "mp4" THEN "video/mp4"
    ELSE IF file.ext \in {"m4a", "mp3"} THEN "audio/mpeg" ELSE "application/octet-stream"

buildItem(it, now) ==
    [title |-> it.title, pubDate |-> isoDate(it.date, now), enclosure |-> it.file,
     type |-> Mime(it.file)]

generateRss(recs, now) == [i \in DOMAIN recs |-> buildItem(recs[i], now)]

\* ------------------------------------------------------------------ state
VARIABLES
    opts,            \* parsed options: rss, audioOnly, oldestDate
    remote,          \* the channel's claims as the listing API orders them
    disk,            \* basenames of the media files in outputDir
    cacheFile,       \* outputDir/feed.json
    feedFile,        \* the RSS document
    runs,            \* invocations started so far
    pc,              \* where processChannel is suspended
    page, processing, items, idx,
    rssItems, knownUrls, knownBasenames,
    hist             \* observations of the current run (not program state)

vars == <<opts, remote, disk, cacheFile, feedFile, runs, pc, page, processing,
          items, idx, rssItems, knownUrls, knownBasenames, hist>>

NoFile == [exists |-> FALSE, items |-> <<>>]

\* feed.json: form says what JSON.parse makes of the text ("items": an object
\* with an items array)
NoCache == [exists |-> FALSE, form |-> "none", items |-> <<>>]

\* an entry of the items array that is not a record (a number, say): every
\* field read from it is undefined
Junk ==
    [title |-> <<>>, file |-> [name |-> <<>>, ext |-> ""], date |-> NullDate,
     sourceUrl |-> <<>>]

NoEvent ==
    [op |-> "none", page |-> 0, idx |-> 0, n |-> 0, path |-> OutPath(<<>>, FALSE),
     partial |-> FALSE]

FreshHist ==
    [fetches   |-> <<>>,      \* page numbers requested from the listing API
     pageLens  |-> <<>>,      \* length of each page received
     pageKnown |-> <<>>,      \* per page: first position already known on arrival (0: none)
     calls     |-> <<>>,      \* resolver calls, fetch-tool calls and records pushed
     visited   |-> {},        \* <<page, idx>> whose item body ran
     halt      |-> [hit |-> FALSE, fetches |-> 0],
     cut       |-> [hit |-> FALSE, page |-> 0, idx |-> 0, date |-> 0],
     listFail  |-> "none",
     ev        |-> NoEvent,
     rss       |-> FALSE,     \* the feed setting the run was started with
     pre       |-> [ri |-> <<>>, ku |-> {}, kb |-> {}, disk |-> {}],
                              \* bookkeeping and directory when the item body began
     loaded    |-> {},        \* source URLs of the cache loaded at run start
     prev      |-> [cache |-> NoCache, feed |-> NoFile],
     prevOk    |-> FALSE,     \* the previous run completed undisturbed
     dirty     |-> FALSE,     \* listing or directory changed, or a step failed
     damaged   |-> FALSE]     \* feed.json was damaged after the run wrote it

Init ==
    /\ opts \in [rss : BOOLEAN, audioOnly : BOOLEAN, oldestDate : {NoDate} \cup 1..MaxDate]
    /\ remote = <<>>
    /\ disk = {}
    /\ cacheFile = NoCache
    /\ feedFile = NoFile
    /\ runs = 0
    /\ pc = "idle"
    /\ page = 1
    /\ processing = TRUE
    /\ items = <<>>
    /\ idx = 0
    /\ rssItems = <<>>
    /\ knownUrls = {}
    /\ knownBasenames = {}
    /\ hist = FreshHist

Stopped == pc \in {"idle", "done", "dead"}

\* ------------------------------------------------------------ environment
\* a new claim appears at the head of the channel
Publish(c) ==
    /\ pc \in {"idle", "done", "dead", "fetch"}
    /\ Stopped => runs < MaxRuns
    /\ \A i \in DOMAIN remote : remote[i].name # c.name
    /\ remote' = <<c>> \o remote
    /\ hist' = [hist EXCEPT !.dirty = TRUE]
    /\ UNCHANGED <<opts, disk, cacheFile, feedFile, runs, pc, page, processing,
                   items, idx, rssItems, knownUrls, knownBasenames>>

\* somebody removes a media file from the output directory between two runs
RemoveFile(f) ==
    /\ pc \in {"done", "dead"}
    /\ runs < MaxRuns
    /\ f \in disk
    /\ disk' = disk \ {f}
    /\ hist' = [hist EXCEPT !.dirty = TRUE]
    /\ UNCHANGED <<opts, remote, cacheFile, feedFile, runs, pc, page, processing,
                   items, idx, rssItems, knownUrls, knownBasenames>>

\* the feed is switched on or off (RSS, --rss) for the runs that follow
Reconfigure ==
    /\ pc \in {"done", "dead"}
    /\ runs < MaxRuns
    /\ opts' = [opts EXCEPT !.rss = ~@]
    /\ hist' = [hist EXCEPT !.dirty = TRUE]
    /\ UNCHANGED <<remote, disk, cacheFile, feedFile, runs, pc, page, processing,
                   items, idx, rssItems, knownUrls, knownBasenames>>

CacheDamage == {"notJson", "noItems", "junkEntry"}

\* feed.json is damaged between two runs: its text is no longer JSON, its JSON
\* has no items array, or the array gains an entry that is not a record
CorruptCache(kind) ==
    /\ pc \in {"done", "dead"}
    /\ runs < MaxRuns
    /\ cacheFile.exists
    /\ cacheFile.form = "items"
    /\ Junk \notin Range(cacheFile.items)
    /\ cacheFile' = IF kind = "junkEntry"
                    THEN [cacheFile EXCEPT !.items = Append(@, Junk)]
                    ELSE [exists |-> TRUE, form |-> kind, items |-> <<>>]
    /\ hist' = [hist EXCEPT !.dirty = TRUE, !.damaged = TRUE]
    /\ UNCHANGED <<opts, remote, disk, feedFile, runs, pc, page, processing,
                   items, idx, rssItems, knownUrls, knownBasenames>>

\* ------------------------------------------------------------ control flow
\* the short-page test left out
LastPageIgnored(n) == FALSE

LastPage(n) == n < PageSize

\* the loop written as while (true)
LoopAgainAlways(proc) == TRUE

LoopAgain(proc) == proc

\* cache save and feed generation at the end of processChannel
\* feed.json as the run writes it
SaveCache(ri) == [exists |-> TRUE, form |-> "items", items |-> Persist(ri)]

Finish(ri) ==
    /\ pc' = "done"
    /\ cacheFile' = SaveCache(ri)
    /\ feedFile' = IF opts.rss
                   THEN [exists |-> TRUE, items |-> generateRss(SortItems(ri), runs)]
                   ELSE feedFile
    /\ UNCHANGED idx

\* end of the for loop over a page: break on a short page, else page += 1 and
\* the while condition
EndOfPage(ri, proc, h) ==
    IF LastPage(Len(items))
    THEN Finish(ri) /\ page' = page /\ hist' = h
    ELSE IF ~LoopAgain(proc)
    THEN Finish(ri) /\ page' = page + 1 /\ hist' = h
    ELSE /\ pc' = "fetch"
         /\ page' = page + 1
         /\ hist' = [h EXCEPT !.fetches = Append(@, page + 1)]
         /\ UNCHANGED <<idx, cacheFile, feedFile>>

\* continue with the next item of the page
Continue(ri, proc, h) ==
    IF idx < Len(items)
    THEN /\ pc' = "item"
         /\ idx' = idx + 1
         /\ hist' = h
         /\ UNCHANGED <<page, cacheFile, feedFile>>
    ELSE EndOfPage(ri, proc, h)

\* ------------------------------------------------------- processChannel
\* the cache read whatever the feed setting
LoadCacheAlways ==
    IF cacheFile.exists /\ cacheFile.form = "items" THEN cacheFile.items ELSE <<>>

\* what a well-formed cache file yields; it is read only with the feed enabled
LoadCache ==
    IF opts.rss /\ cacheFile.exists /\ cacheFile.form = "items"
    THEN cacheFile.items ELSE <<>>

\* if (it.sourceUrl) / if (it.file)
LoadedUrls == { it.sourceUrl : it \in { r \in Range(LoadCache) : r.sourceUrl # <<>> } }

LoadedBasenames == { it.file : it \in { r \in Range(LoadCache) : r.file.ext # "" } }

\* downloadChannel.js is started: cache load, then the request for page 1
StartRun ==
    /\ Stopped
    /\ runs < MaxRuns
    /\ runs' = runs + 1
    /\ rssItems' = LoadCache
    /\ knownUrls' = LoadedUrls
    /\ knownBasenames' = LoadedBasenames
    /\ page' = 1
    /\ processing' = TRUE
    /\ items' = <<>>
    /\ idx' = 0
    /\ pc' = "fetch"
    /\ hist' = [FreshHist EXCEPT
                  !.fetches = <<1>>,
                  !.rss = opts.rss,
                  !.loaded = LoadedUrls,
                  !.prev = [cache |-> cacheFile, feed |-> feedFile],
                  !.prevOk = (pc = "done" /\ ~hist.dirty)]
    /\ UNCHANGED <<opts, remote, disk, cacheFile, feedFile>>

IsKnown(it) ==
    \/ it.url \in knownUrls
    \/ ProspectiveBasename(it.title, opts.audioOnly) \in knownBasenames

\* first position of a page that is already known, 0 when there is none
FirstKnown(its) ==
    IF \E j \in DOMAIN its : IsKnown(its[j])
    THEN CHOOSE j \in DOMAIN its :
            IsKnown(its[j]) /\ \A i \in 1..(j - 1) : ~IsKnown(its[i])
    ELSE 0

\* the listing request resolves with a page
ListingOk ==
    /\ pc = "fetch"
    /\ LET its == PageOf(remote, page, PageSize)
           h   == [hist EXCEPT !.pageLens = Append(@, Len(its)),
                               !.pageKnown = Append(@, FirstKnown(its)),
                               !.ev = [NoEvent EXCEPT !.op = "page", !.page = page,
                                                      !.n = Len(its)]]
       IN  /\ items' = its
           /\ IF its = <<>>
              THEN Finish(rssItems) /\ page' = page /\ hist' = h
              ELSE /\ pc' = "item"
                   /\ idx' = 1
                   /\ hist' = h
                   /\ UNCHANGED <<page, cacheFile, feedFile>>
    /\ UNCHANGED <<opts, remote, disk, runs, processing, rssItems, knownUrls,
                   knownBasenames>>

\* the API answers with an error object: getChannelListings rejects
ListingApiError ==
    /\ pc = "fetch"
    /\ Finish(rssItems)
    /\ page' = page
    /\ hist' = [hist EXCEPT !.listFail = "apiError", !.dirty = TRUE,
                            !.ev = [NoEvent EXCEPT !.op = "listFail", !.page = page]]
    /\ UNCHANGED <<opts, remote, disk, runs, processing, items, rssItems,
                   knownUrls, knownBasenames>>

UnsettledKinds == {"transport", "noResult"}

\* axios.post rejects, or the response has no result.items: nothing settles
\* the promise of getChannelListings and processChannel never resumes
ListingUnsettled(kind) ==
    /\ pc = "fetch"
    /\ pc' = "dead"
    /\ hist' = [hist EXCEPT !.listFail = kind, !.dirty = TRUE,
                            !.ev = [NoEvent EXCEPT !.op = "listFail", !.page = page]]
    /\ UNCHANGED <<opts, remote, disk, cacheFile, feedFile, runs, page, processing,
                   items, idx, rssItems, knownUrls, knownBasenames>>

Item == items[idx]

OutPathOf(it) == OutPath(it.title, opts.audioOnly)

NextKnown == \E j \in (idx + 1)..Len(items) : IsKnown(items[j])

\* processing after the lookahead scan of the current item
Lookahead(proc) == IF NextKnown THEN FALSE ELSE proc

\* hist after the lookahead scan
Scanned ==
    [hist EXCEPT
       !.halt = IF NextKnown /\ ~hist.halt.hit
                THEN [hit |-> TRUE, fetches |-> Len(hist.fetches)] ELSE @,
       !.pre = [ri |-> rssItems, ku |-> knownUrls, kb |-> knownBasenames,
                disk |-> disk]]

Event(op) ==
    [op |-> op, page |-> page, idx |-> idx, n |-> Len(items), path |-> OutPathOf(Item),
     partial |-> FALSE]

Call(op) == [op |-> op, page |-> page, idx |-> idx, url |-> Item.url]

\* the item is older than oldestDate: break, and the walk ends
ItemCutoff ==
    /\ pc = "item"
    /\ CutoffReached(opts.oldestDate, Created(Item.date))
    /\ processing' = FALSE
    /\ EndOfPage(rssItems, FALSE,
                 [Scanned EXCEPT
                    !.cut = [hit |-> TRUE, page |-> page, idx |-> idx, date |-> Item.date],
                    !.ev = Event("cutoff")])
    /\ UNCHANGED <<opts, remote, disk, runs, items, rssItems, knownUrls,
                   knownBasenames>>

\* the existing file skipped without a record
ItemSkipExistingSilent ==
    /\ pc = "item"
    /\ ~CutoffReached(opts.oldestDate, Created(Item.date))
    /\ OutPathOf(Item) \in disk
    /\ processing' = Lookahead(processing)
    /\ Continue(rssItems, Lookahead(processing),
                [Scanned EXCEPT !.visited = @ \cup {<<page, idx>>},
                                !.ev = Event("skip")])
    /\ UNCHANGED <<opts, remote, disk, runs, items, rssItems, knownUrls,
                   knownBasenames>>

\* the output file exists: record it for the feed and continue
ItemSkipExisting ==
    /\ pc = "item"
    /\ ~CutoffReached(opts.oldestDate, Created(Item.date))
    /\ OutPathOf(Item) \in disk
    /\ LET ri == IF opts.rss THEN Append(rssItems, NewRecord(Item, OutPathOf(Item)))
                 ELSE rssItems
           h  == [Scanned EXCEPT
                    !.visited = @ \cup {<<page, idx>>},
                    !.calls = IF opts.rss THEN Append(@, Call("record")) ELSE @,
                    !.ev = Event("skip")]
       IN  /\ rssItems' = ri
           /\ processing' = Lookahead(processing)
           /\ Continue(ri, Lookahead(processing), h)
    /\ UNCHANGED <<opts, remote, disk, runs, items, knownUrls, knownBasenames>>

\* getDownloadUrl called without looking for the output file
ItemResolveUnchecked ==
    /\ pc = "item"
    /\ ~CutoffReached(opts.oldestDate, Created(Item.date))
    /\ processing' = Lookahead(processing)
    /\ pc' = "resolve"
    /\ hist' = [Scanned EXCEPT
                  !.visited = @ \cup {<<page, idx>>},
                  !.calls = Append(@, Call("resolve")),
                  !.ev = Event("resolve")]
    /\ UNCHANGED <<opts, remote, disk, cacheFile, feedFile, runs, page, items, idx,
                   rssItems, knownUrls, knownBasenames>>

\* the output file is missing: getDownloadUrl is called
ItemResolve ==
    /\ pc = "item"
    /\ ~CutoffReached(opts.oldestDate, Created(Item.date))
    /\ OutPathOf(Item) \notin disk
    /\ processing' = Lookahead(processing)
    /\ pc' = "resolve"
    /\ hist' = [Scanned EXCEPT
                  !.visited = @ \cup {<<page, idx>>},
                  !.calls = Append(@, Call("resolve")),
                  !.ev = Event("resolve")]
    /\ UNCHANGED <<opts, remote, disk, cacheFile, feedFile, runs, page, items, idx,
                   rssItems, knownUrls, knownBasenames>>

\* getDownloadUrl returns a contentUrl: downloadToFile is called
ResolveOk ==
    /\ pc = "resolve"
    /\ pc' = "download"
    /\ hist' = [hist EXCEPT !.calls = Append(@, Call("download")),
                            !.ev = Event("download")]
    /\ UNCHANGED <<opts, remote, disk, cacheFile, feedFile, runs, page, processing,
                   items, idx, rssItems, knownUrls, knownBasenames>>

\* the failed item entered in the known URLs
ResolveThrowRegisters ==
    /\ pc = "resolve"
    /\ knownUrls' = knownUrls \cup {Item.url}
    /\ Continue(rssItems, processing,
                [hist EXCEPT !.dirty = TRUE, !.ev = Event("resolveFail")])
    /\ UNCHANGED <<opts, remote, disk, runs, processing, items, rssItems,
                   knownBasenames>>

\* getDownloadUrl throws: log and continue
ResolveThrow ==
    /\ pc = "resolve"
    /\ Continue(rssItems, processing,
                [hist EXCEPT !.dirty = TRUE, !.ev = Event("resolveFail")])
    /\ UNCHANGED <<opts, remote, disk, runs, processing, items, rssItems,
                   knownUrls, knownBasenames>>

\* info.contentUrl is empty: log and continue
ResolveNoUrl ==
    /\ pc = "resolve"
    /\ Continue(rssItems, processing,
                [hist EXCEPT !.dirty = TRUE, !.ev = Event("noUrl")])
    /\ UNCHANGED <<opts, remote, disk, runs, processing, items, rssItems,
                   knownUrls, knownBasenames>>

\* the record pushed, the known sets forgotten
DownloadOkUnregistered ==
    /\ pc = "download"
    /\ disk' = disk \cup {OutPathOf(Item)}
    /\ LET ri == IF opts.rss THEN Append(rssItems, NewRecord(Item, OutPathOf(Item)))
                 ELSE rssItems
           h  == [hist EXCEPT
                    !.calls = IF opts.rss THEN Append(@, Call("record")) ELSE @,
                    !.ev = Event("downloaded")]
       IN  /\ rssItems' = ri
           /\ Continue(ri, processing, h)
    /\ UNCHANGED <<opts, remote, runs, processing, items, knownUrls, knownBasenames>>

\* yt-dlp exits with code 0: the file is there and the item is recorded
DownloadOk ==
    /\ pc = "download"
    /\ disk' = disk \cup {OutPathOf(Item)}
    /\ LET ri == IF opts.rss THEN Append(rssItems, NewRecord(Item, OutPathOf(Item)))
                 ELSE rssItems
           h  == [hist EXCEPT
                    !.calls = IF opts.rss THEN Append(@, Call("record")) ELSE @,
                    !.ev = Event("downloaded")]
       IN  /\ rssItems' = ri
           /\ knownUrls' = IF opts.rss THEN knownUrls \cup {Item.url} ELSE knownUrls
           /\ knownBasenames' = IF opts.rss THEN knownBasenames \cup {OutPathOf(Item)}
                                ELSE knownBasenames
           /\ Continue(ri, processing, h)
    /\ UNCHANGED <<opts, remote, runs, processing, items>>

\* the partial file left where it is
UnlinkSkipped(d, f) == d

\* fs.existsSync(outPath) then fs.unlinkSync(outPath)
Unlink(d, f) == d \ {f}

\* the fetch error propagating out of processChannel to main
DownloadFailAborts(partial) ==
    /\ pc = "download"
    /\ pc' = "dead"
    /\ disk' = IF partial THEN disk \cup {OutPathOf(Item)} ELSE disk
    /\ hist' = [hist EXCEPT !.dirty = TRUE,
                            !.ev = [Event("downloadFail") EXCEPT !.partial = partial]]
    /\ UNCHANGED <<opts, remote, cacheFile, feedFile, runs, page, processing, items,
                   idx, rssItems, knownUrls, knownBasenames>>

\* yt-dlp exits non-zero or cannot be run; it may leave a partial file behind
DownloadFail(partial) ==
    /\ pc = "download"
    /\ disk' = Unlink(IF partial THEN disk \cup {OutPathOf(Item)} ELSE disk,
                      OutPathOf(Item))
    /\ Continue(rssItems, processing,
                [hist EXCEPT !.dirty = TRUE,
                             !.ev = [Event("downloadFail") EXCEPT !.partial = partial]])
    /\ UNCHANGED <<opts, remote, runs, processing, items, rssItems, knownUrls,
                   knownBasenames>>

Next ==
    \/ \E c \in Catalogue : Publish(c)
    \/ \E f \in disk : RemoveFile(f)
    \/ Reconfigure
    \/ \E kind \in CacheDamage : CorruptCache(kind)
    \/ StartRun
    \/ ListingOk
    \/ ListingApiError
    \/ \E kind \in UnsettledKinds : ListingUnsettled(kind)
    \/ ItemCutoff
    \/ ItemSkipExisting
    \/ ItemResolve
    \/ ResolveOk
    \/ ResolveThrow
    \/ ResolveNoUrl
    \/ DownloadOk
    \/ \E partial \in BOOLEAN : DownloadFail(partial)

Spec == Init /\ [][Next]_vars

\* ------------------------------------------------------------------ claims
IsPrefix(s, t) == Len(s) <= Len(t) /\ SubSeq(t, 1, Len(s)) = s

ToolCalls == { i \in DOMAIN hist.calls : hist.calls[i].op \in {"resolve", "download"} }

UniqueRecords(recs) ==
    \A i, j \in DOMAIN recs :
        i # j => recs[i].sourceUrl # recs[j].sourceUrl /\ recs[i].file # recs[j].file

\* the positions of the listing that come before position i of page p
Before(p, i) ==
    { pos \in (1..p) \X (1..PageSize) : pos[1] < p \/ pos[2] < i }

\* C1: a run that follows an undisturbed, failure-free run over the same listing
\* and output directory leaves the cache file and the feed as they were, holds no
\* record twice, and calls neither the resolver nor the fetch tool.
C1_Idempotent ==
    (pc = "done" /\ hist.prevOk /\ ~hist.dirty) =>
        /\ cacheFile = hist.prev.cache
        /\ feedFile = hist.prev.feed
        /\ UniqueRecords(cacheFile.items)
        /\ ToolCalls = {}

\* C2: no two records of the in-memory list, and none of a written cache file,
\* share a sourceUrl or the basename of their output file.
C2_Unique == UniqueRecords(rssItems) /\ UniqueRecords(cacheFile.items)

\* C3: an item whose sourceUrl is in the cache loaded at run start is never
\* handed to the resolver or to the fetch tool.
C3_NoRefetch == \A i \in ToolCalls : hist.calls[i].url \notin hist.loaded

\* C4: when position k is the first already-known one of a page, only the
\* positions before k of that page are resolved, fetched or recorded.
C4_OnlyBeforeKnown ==
    \A i \in DOMAIN hist.calls :
        LET k == hist.pageKnown[hist.calls[i].page]
        IN  k = 0 \/ hist.calls[i].idx < k

\* C5: once a lookahead scan has found an already-known later item, no further
\* listing request is issued in the run.
C5_NoFetchAfterHalt == hist.halt.hit => Len(hist.fetches) = hist.halt.fetches

C5_Witness ==
    /\ hist.halt.hit
    /\ pc = "done"
    /\ ~hist.cut.hit
    /\ Len(items) = PageSize
    /\ Len(remote) > Len(hist.fetches) * PageSize

\* C6: when the walk reaches an item strictly older than oldestDate, the run ends
\* there: every position before it has been processed, that position and all
\* later ones are never resolved, fetched or recorded, and no further page is
\* requested.
C6_AgeCutoff ==
    hist.cut.hit =>
        /\ pc = "done"
        /\ opts.oldestDate # NoDate
        /\ hist.cut.date # 0 /\ hist.cut.date < opts.oldestDate
        /\ hist.visited = Before(hist.cut.page, hist.cut.idx)
        /\ \A i \in DOMAIN hist.calls :
              <<hist.calls[i].page, hist.calls[i].idx>> \in Before(hist.cut.page, hist.cut.idx)
        /\ Len(hist.fetches) = hist.cut.page

\* timestamps [2, 1, ..] with oldestDate 2: exactly the first item is materialized
C6_Witness ==
    /\ hist.cut.hit
    /\ hist.cut.page = 1 /\ hist.cut.idx = 2
    /\ Len(remote) = 3
    /\ hist.visited = {<<1, 1>>}
    /\ \E i \in DOMAIN hist.calls : hist.calls[i].op = "download"
    /\ OutPathOf(items[1]) \in disk

\* C7: pages are requested as 1, 2, 3, ... each once; a page is requested only
\* after full pages; absent cutoff, lookahead halt and listing failure the run
\* ends with the first short or empty page, and the number of requests never
\* exceeds what the channel's length allows.
C7_Pagination ==
    /\ \A i \in DOMAIN hist.fetches : hist.fetches[i] = i
    /\ \A i \in DOMAIN hist.pageLens :
          i < Len(hist.fetches) => hist.pageLens[i] = PageSize
    /\ (pc = "done" /\ ~hist.cut.hit /\ ~hist.halt.hit /\ hist.listFail = "none") =>
          /\ Len(hist.pageLens) = Len(hist.fetches)
          /\ hist.pageLens[Len(hist.pageLens)] < PageSize
    /\ Len(hist.fetches) <= (Len(remote) \div PageSize) + 1

\* page sizes [PageSize, short]: exactly two requests
C7_Witness ==
    /\ pc = "done"
    /\ ~hist.cut.hit /\ ~hist.halt.hit /\ hist.listFail = "none"
    /\ hist.fetches = <<1, 2>>
    /\ hist.pageLens = <<PageSize, 1>>

\* C8: after any listing failure the records accumulated so far are in the cache
\* file.
C8_FailStopPersists ==
    (hist.listFail # "none" /\ ~hist.damaged) =>
        IsPrefix(Persist(rssItems), cacheFile.items)

ItemFailure == hist.ev.op \in {"resolveFail", "noUrl", "downloadFail"}

\* C9: after a failed resolution or a failed fetch the walk goes on as after any
\* item: the next item of the page, else the next page under the usual rules,
\* else the cache is saved and the run completes; a run dies only with an
\* unsettled listing request.
C9_FailureIsolated ==
    /\ ItemFailure =>
          IF hist.ev.idx < hist.ev.n
          THEN pc = "item" /\ idx = hist.ev.idx + 1 /\ page = hist.ev.page
          ELSE IF hist.ev.n < PageSize \/ ~processing
               THEN pc = "done" /\ (hist.damaged \/ cacheFile = SaveCache(rssItems))
               ELSE /\ pc = "fetch" /\ page = hist.ev.page + 1
                    /\ hist.fetches[Len(hist.fetches)] = hist.ev.page + 1
    /\ pc = "dead" => hist.listFail \in UnsettledKinds

C9_Witness == hist.ev.op = "downloadFail" /\ pc = "fetch" /\ Len(hist.fetches) = 2

\* C10: right after a failed fetch no file is left at the item's output path.
C10_PartialRemoved == hist.ev.op = "downloadFail" => hist.ev.path \notin disk

C10_Witness == hist.ev.op = "downloadFail" /\ hist.ev.partial /\ pc = "item"

\* C11: within a run the fetch tool is started at most once for any sourceUrl.
C11_AtMostOneFetch ==
    \A i, j \in DOMAIN hist.calls :
        (/\ hist.calls[i].op = "download"
         /\ hist.calls[j].op = "download"
         /\ hist.calls[i].url = hist.calls[j].url) => i = j


RecordCalls == { i \in DOMAIN hist.calls : hist.calls[i].op = "record" }

\* C12: the cache file a run writes is the cache file it found, in order,
\* followed by one record per record appended in the run.
C12_CarryOver ==
    (pc = "done" /\ ~hist.damaged /\ Junk \notin Range(hist.prev.cache.items)) =>
        /\ IsPrefix(hist.prev.cache.items, cacheFile.items)
        /\ Len(cacheFile.items) = Len(hist.prev.cache.items) + Cardinality(RecordCalls)

\* the record of the item the last step was about
EventRecord == NewRecord(items[hist.ev.idx], hist.ev.path)

Recorded ==
    /\ rssItems = Append(hist.pre.ri, EventRecord)
    /\ knownUrls = hist.pre.ku \cup {EventRecord.sourceUrl}
    /\ knownBasenames = hist.pre.kb \cup {hist.ev.path}
    /\ (pc = "done" /\ ~hist.damaged) => ToJson(EventRecord) \in Range(cacheFile.items)

RECURSIVE ByDateInsert(_, _)
ByDateInsert(s, x) ==
    IF s = <<>> THEN <<x>>
    ELSE IF s[Len(s)].date.t < x.date.t
         THEN Append(ByDateInsert(SubSeq(s, 1, Len(s) - 1), x), s[Len(s)])
         ELSE Append(s, x)

RECURSIVE ByDate(_)
ByDate(s) ==
    IF s = <<>> THEN <<>>
    ELSE ByDateInsert(ByDate(SubSeq(s, 1, Len(s) - 1)), s[Len(s)])

HasDate(rec) == rec.date.k # "null"

HasPubDate(entry) == entry.pubDate.k = "at"

\* C14: the feed entries that carry a date are the dated records handed to the
\* feed step, by publishedAt descending, equal dates in encounter order.
C14_FeedOrdered ==
    (pc = "done" /\ hist.rss) =>
        SelectSeq(feedFile.items, HasPubDate)
            = generateRss(ByDate(SelectSeq(rssItems, HasDate)), runs)

\* C15: in the feed a record without publishedAt (printed with the time of
\* the build) precedes every record that has a publish date.
C15_NullDateFirst ==
    (pc = "done" /\ hist.rss) =>
        \A i, j \in DOMAIN feedFile.items :
            (feedFile.items[i].pubDate.k = "now" /\ feedFile.items[j].pubDate.k = "at")
                => i < j

Malformed(c) == ~c.exists \/ c.form # "items" \/ Junk \in Range(c.items)

\* C16: a run whose cache file was missing or malformed when it started has
\* loaded nothing: right after the load the record list and both known sets
\* are empty, and the first listing page is requested.
C16_LoadTolerant ==
    (runs >= 1 /\ Malformed(hist.prev.cache)) =>
        /\ hist.loaded = {}
        /\ (pc = "fetch" /\ page = 1) =>
              rssItems = <<>> /\ knownUrls = {} /\ knownBasenames = {}

\* where the walk stands after the item of the last event
AfterItem ==
    IF hist.ev.idx < hist.ev.n
    THEN pc = "item" /\ idx = hist.ev.idx + 1 /\ page = hist.ev.page
    ELSE IF hist.ev.n < PageSize \/ ~processing
         THEN pc = "done"
         ELSE pc = "fetch" /\ hist.fetches[Len(hist.fetches)] = hist.ev.page + 1

NoToolCallForEvent ==
    \A i \in ToolCalls :
        ~(hist.calls[i].page = hist.ev.page /\ hist.calls[i].idx = hist.ev.idx)

C18_FailureKeepsBookkeeping ==
    ItemFailure =>
        /\ rssItems = hist.pre.ri
        /\ knownUrls = hist.pre.ku
        /\ knownBasenames = hist.pre.kb
        /\ hist.ev.path \notin disk

C18_Witness == ItemFailure /\ hist.rss /\ rssItems # <<>> /\ pc = "item"

\* C19: in a run with the feed disabled the record list and both known sets
\* are empty throughout, the lookahead never halts the walk, and the run ends
\* only after a short or empty page, a listing failure or the age cutoff.
C19_FeedDisabled ==
    (runs >= 1 /\ ~hist.rss) =>
        /\ rssItems = <<>> /\ knownUrls = {} /\ knownBasenames = {}
        /\ ~hist.halt.hit
        /\ processing \/ hist.cut.hit
        /\ pc \in {"done", "dead"} =>
              \/ hist.cut.hit
              \/ hist.listFail # "none"
              \/ /\ hist.pageLens # <<>>
                 /\ hist.pageLens[Len(hist.pageLens)] < PageSize

C19_Witness ==
    /\ ~hist.rss /\ hist.prev.cache.items # <<>>
    /\ Len(hist.fetches) = 2 /\ pc = "item"

\* C20: no step of a run removes a file from the output directory: a failed
\* fetch removes only what it left at a path that held no file.
C20_NoOutputDeleted == [][~Stopped => disk \subseteq disk']_vars

C20_Witness ==
    /\ hist.ev.op = "downloadFail" /\ hist.ev.partial
    /\ hist.pre.disk # {} /\ hist.pre.disk \subseteq disk

====
